---- MODULE Spec2Model ----
(***************************************************************************)
(* Contact verification pipeline of VGBRO/Contact-Information-Verification. *)
(*                                                                         *)
(* The repository holds two programs, both listed in docs/architecture.md: *)
(*   - ImprovedContactVerifier (lines 19-611): the data-quality run, with  *)
(*     the rate limiter and the chunked Salesforce update;                 *)
(*   - ContactVerifier (lines 613-1054): the search-based run, with the    *)
(*     multi-engine search and the name/company classification.            *)
(* mode = "quality" runs the first, mode = "search" the second.            *)
(***************************************************************************)
EXTENDS Integers, Sequences, FiniteSets, TLC

VARIABLES
    \* ---- rate limiter (ImprovedContactVerifier constructor, lines 72-75)
    now,              \* the wall clock, Date.now(), in ms
    lastRequestTime,  \* this.lastRequestTime
    requestCount,     \* this.requestCount
    \* ---- concurrent callers of enforceRateLimit (the class is exported)
    callers,          \* caller -> its position inside enforceRateLimit
    ev,               \* number of call/return events so far
    history,          \* completed calls, in the order they returned
    \* ---- the run (main of either program)
    mode,             \* "quality": ImprovedContactVerifier, "search": ContactVerifier
    dryRun,           \* options.dryRun
    connected,        \* const connected of main: "pending" until connectToSalesforce returns
    signal,           \* the signal the process has received, or NoSignal
    printed,          \* the summary generateReport printed, or NoReport
    saved,            \* the report file saveReport wrote, or NoReport
    pc,               \* where main (and the method it awaits) stands
    results,          \* main's results array
    wakeAt,           \* deadline of the timer main is suspended on
    testEmail,        \* options.testEmail
    contacts,         \* the records getContactsToVerify returned
    ci,               \* main's loop index i
    raised,           \* per processed contact: the exception its verification raised, or NoError
    \* ---- searchLinkedIn (search program)
    sidx,             \* position in searchStrategies
    searchResults,    \* let results
    attempts,         \* the strategies tried for the current contact, with what each gave
    delays,           \* courtesy delays main has slept
    \* ---- updateSalesforce
    bi,               \* offset i of the batch loop (index of the for-of loop in "search")
    wstate,           \* result index -> state of its update promise
    writes,           \* the update payloads sent to the CRM, in the order sent
    successCount,     \* let successCount
    errorCount,       \* let errorCount
    errors,           \* const errors
    errorLog,         \* the lines updateSalesforce logged with type 'error'
    shown,            \* what displayResults printed
    spinner,          \* the closing message of the update spinner
    \* ---- the protocol wrapper (SalesforceVerifierServer)
    request,          \* the tool call the handler was given, or NoRequest
    response          \* what the handler gave back to its caller, or NoResponse

limiterVars == <<now, lastRequestTime, requestCount>>
harnessVars == <<callers, ev, history>>
runVars     == <<mode, dryRun, connected, signal, printed, saved, pc, results, wakeAt>>
verifyVars  == <<testEmail, contacts, ci, raised, sidx, searchResults, attempts, delays>>
updateVars  == <<bi, wstate, writes, successCount, errorCount, errors, errorLog, shown, spinner>>
toolVars    == <<request, response>>
vars == <<limiterVars, harnessVars, runVars, verifyVars, updateVars, toolVars>>

\* ------------------------------------------------------------ bounds
StartTime  == 1000   \* Date.now() when the run starts (far from time 0)
TickMs     == 500    \* granularity of the clock in the limiter harness
MaxNow     == 3000   \* the harness stops the clock here
NumCallers == 2      \* concurrent callers of enforceRateLimit
MaxCalls   == 3      \* calls of enforceRateLimit the harness makes
MaxResults == 12     \* results handed to updateSalesforce on its own
MaxWriteFailures == 2  \* updates the CRM rejects in one run
MaxContacts == 2     \* contacts the CRM query returns in a whole run

\* ------------------------------------------------- program constants
minDelayMs == 1000   \* this.minDelayMs
batchSize  == 10     \* const batchSize
courtesyDelayMs == 3000  \* setTimeout(resolve, 3000) between contacts

\* ------------------------------------------------------------ text
\* A JavaScript string is the sequence of its characters; null and
\* undefined of a text field are the empty sequence (falsy like "").
UpperLetters == <<"A", "B", "C", "D", "E", "F", "G", "H", "I", "J", "K", "L", "M", "N", "O", "P", "Q", "R", "S", "T", "U", "V", "W", "X", "Y", "Z">>
LowerLetters == <<"a", "b", "c", "d", "e", "f", "g", "h", "i", "j", "k", "l", "m", "n", "o", "p", "q", "r", "s", "t", "u", "v", "w", "x", "y", "z">>

LowerChar(c) ==
    IF \E j \in 1..26 : UpperLetters[j] = c
    THEN LowerLetters[CHOOSE j \in 1..26 : UpperLetters[j] = c]
    ELSE c

\* String.prototype.toLowerCase
ToLowerCase(str) == [k \in 1..Len(str) |-> LowerChar(str[k])]

\* String.prototype.includes
Includes(hay, needle) ==
    \E start \in 0..(Len(hay) - Len(needle)) :
        \A j \in 1..Len(needle) : hay[start + j] = needle[j]

\* String.prototype.trim
RECURSIVE Trim(_)
Trim(str) ==
    IF str = <<>> THEN str
    ELSE IF Head(str) = " " THEN Trim(Tail(str))
    ELSE IF str[Len(str)] = " " THEN Trim(SubSeq(str, 1, Len(str) - 1))
    ELSE str

\* String.prototype.split(ch), for a one-character separator
RECURSIVE Split(_, _)
Split(str, ch) ==
    IF \E k \in 1..Len(str) : str[k] = ch
    THEN LET k == CHOOSE j \in 1..Len(str) :
                    str[j] = ch /\ \A h \in 1..(j - 1) : str[h] # ch
         IN  <<SubSeq(str, 1, k - 1)>> \o Split(SubSeq(str, k + 1, Len(str)), ch)
    ELSE <<str>>

S_UnknownCompany == <<"U", "n", "k", "n", "o", "w", "n", " ", "C", "o", "m", "p", "a", "n", "y">>
S_AlLi   == <<"A", "l", " ", "L", "i">>
S_BoChan == <<"B", "o", " ", "C", "h", "a", "n">>
S_Acme   == <<"A", "c", "m", "e">>
S_CEO    == <<"C", "E", "O">>
S_AlLiCEO == <<" ", "A", "l", " ", "L", "i", " ", "-", " ", "C", "E", "O", " ">>
S_X      == <<"X">>
S_Email  == <<"a", "l", "@", "a", "c", "m", "e", ".", "c", "o">>
S_BadEmail == <<"a", "l", "@", "a", "c", "m", "e">>
S_AlJLi  == <<"A", "l", " ", "J", " ", "L", "i">>
S_AlDashLi == <<"A", "l", "-", "L", "i">>
S_AlanLi == <<"A", "l", "a", "n", " ", "L", "i">>
S_ALLI   == <<"A", "L", " ", "L", "I">>
S_Initech == <<"I", "n", "i", "t", "e", "c", "h">>
S_TitleAlLi == <<"A", "l", " ", "L", "i", " ", "-", " ", "C", "E", "O">>
S_TitleBo == <<"B", "o", " ", "C", "h", "a", "n", " ", "|", " ", "L", "i", "n", "k", "e", "d", "I", "n">>
S_TitleCEO == <<"C", "E", "O">>
S_AtInitech == <<"C", "T", "O", " ", "a", "t", " ", "I", "n", "i", "t", "e", "c", "h">>
S_AlLiAcme == <<"A", "l", " ", "L", "i", ",", " ", "A", "c", "m", "e">>
S_AcmeInc == <<"C", "E", "O", " ", "a", "t", " ", "A", "C", "M", "E", " ", "I", "n", "c">>

\* ------------------------------------------------- double arithmetic
\* A Number is kept exactly: sign and magnitude in units of 2^-56, the
\* magnitude in two limbs (hi * 2^28 + lo). Every literal and every
\* difference of verifyContactData is a multiple of that unit.
Limb == 2^28

D_0_8 == [neg |-> FALSE, hi |-> 214748364, lo |-> 214748368]
D_0_5 == [neg |-> FALSE, hi |-> 134217728, lo |-> 0]
D_0_3 == [neg |-> FALSE, hi |-> 80530636, lo |-> 214748364]
D_0_2 == [neg |-> FALSE, hi |-> 53687091, lo |-> 53687092]
D_0_1 == [neg |-> FALSE, hi |-> 26843545, lo |-> 161061274]
D_1   == [neg |-> FALSE, hi |-> 268435456, lo |-> 0]
D_0   == [neg |-> FALSE, hi |-> 0, lo |-> 0]

MagGe(a, b) == a.hi > b.hi \/ (a.hi = b.hi /\ a.lo >= b.lo)

\* |a| - |b| for |a| >= |b|, exact
MagSub(a, b) ==
    IF a.lo >= b.lo
    THEN [hi |-> a.hi - b.hi, lo |-> a.lo - b.lo]
    ELSE [hi |-> a.hi - b.hi - 1, lo |-> a.lo + Limb - b.lo]

\* |a| + |b|, exact
MagAdd(a, b) ==
    IF a.lo + b.lo < Limb
    THEN [hi |-> a.hi + b.hi, lo |-> a.lo + b.lo]
    ELSE [hi |-> a.hi + b.hi + 1, lo |-> a.lo + b.lo - Limb]

\* the spacing of doubles around a magnitude, in units: 53 significant bits
Quantum(m) ==
    IF m.hi >= 2^29 THEN 32 ELSE IF m.hi >= 2^28 THEN 16
    ELSE IF m.hi >= 2^27 THEN 8 ELSE IF m.hi >= 2^26 THEN 4 ELSE IF m.hi >= 2^25 THEN 2 ELSE 1

\* round to nearest double, ties to even
RoundMag(m) ==
    LET q    == Quantum(m)
        r    == m.lo % q
        down == m.lo - r
        up   == down + q
        pick == IF 2 * r < q THEN down
                ELSE IF 2 * r > q THEN up
                ELSE IF (down \div q) % 2 = 0 THEN down ELSE up
    IN  IF pick = Limb THEN [hi |-> m.hi + 1, lo |-> 0] ELSE [hi |-> m.hi, lo |-> pick]

Signed(neg, m) == [neg |-> neg /\ (m.hi # 0 \/ m.lo # 0), hi |-> m.hi, lo |-> m.lo]

\* x - y in double arithmetic, for y >= 0
FSub(x, y) ==
    IF x.neg THEN Signed(TRUE, RoundMag(MagAdd(x, y)))
    ELSE IF MagGe(x, y) THEN Signed(FALSE, RoundMag(MagSub(x, y)))
    ELSE Signed(TRUE, RoundMag(MagSub(y, x)))

\* x + y in double arithmetic, for x >= 0 and y >= 0
FAdd(x, y) == Signed(FALSE, RoundMag(MagAdd(x, y)))

\* x > y, for y >= 0
FGt(x, y) == ~x.neg /\ MagGe(x, y) /\ ~(x.hi = y.hi /\ x.lo = y.lo)

\* Math.max(0, Math.min(1, x))
Clamp01(x) == IF x.neg THEN D_0 ELSE IF FGt(x, D_1) THEN D_1 ELSE x

\* (x * 100).toFixed(0): the sign and the nearest integer of |x| * 100;
\* exact for the values verifyContactData reaches, which lie within
\* 2^-50 of a multiple of 0.1
ToPercent(x) ==
    [neg |-> x.neg, n |-> ((x.hi \div 2^8) * 100 + 2^19) \div 2^20]

\* ------------------------------------------------------ rate limiter
\* timeSinceLastRequest = now - this.lastRequestTime
TimeSinceLastRequest(t, last) == t - last

Delay_NoWait(t, last) == 0

\* the delay enforceRateLimit sleeps for; 0 when it does not sleep at all
Delay(t, last) ==
    IF TimeSinceLastRequest(t, last) < minDelayMs
    THEN minDelayMs - TimeSinceLastRequest(t, last)
    ELSE 0

RecordRequest_NoCount(t) ==
    /\ lastRequestTime' = t
    /\ UNCHANGED requestCount

\* the two assignments that end enforceRateLimit, made at clock value t
RecordRequest(t) ==
    /\ lastRequestTime' = t
    /\ requestCount' = requestCount + 1

NoSignal == "none"
NoReport == [kind |-> "none"]

NoRequest == [kind |-> "none"]
NoResponse == [kind |-> "none"]

\* no tool call has been made
InitTool == request = NoRequest /\ response = NoResponse

NoMessage == [kind |-> "none", successCount |-> 0, errorCount |-> 0]

\* ------------------------------------- harness: concurrent callers
Callers == 1..NumCallers

Idle == [st |-> "idle", wake |-> 0, startEv |-> 0]

\* caller c calls enforceRateLimit: the code up to the await runs at once;
\* without a delay the call also returns at once
LCall(c) ==
    /\ callers[c].st = "idle"
    /\ ev < 2 * MaxCalls
    /\ Len(history) + Cardinality({d \in Callers : callers[d].st = "waiting"}) < MaxCalls
    /\ ev' = ev + 1
    /\ LET d == Delay(now, lastRequestTime) IN
       IF d = 0
       THEN /\ RecordRequest(now)
            /\ history' = Append(history,
                   [caller |-> c, startEv |-> ev + 1, retEv |-> ev + 1,
                    waited |-> FALSE, ret |-> now])
            /\ UNCHANGED callers
       ELSE /\ callers' = [callers EXCEPT ![c] =
                   [st |-> "waiting", wake |-> now + d, startEv |-> ev + 1]]
            /\ UNCHANGED <<lastRequestTime, requestCount, history>>
    /\ UNCHANGED <<now, runVars, toolVars, verifyVars, updateVars>>

\* the timer of caller c fires (never early) and the call returns
LWake(c) ==
    /\ callers[c].st = "waiting"
    /\ now >= callers[c].wake
    /\ ev' = ev + 1
    /\ RecordRequest(now)
    /\ history' = Append(history,
           [caller |-> c, startEv |-> callers[c].startEv, retEv |-> ev + 1,
            waited |-> TRUE, ret |-> now])
    /\ callers' = [callers EXCEPT ![c] = Idle]
    /\ UNCHANGED <<now, runVars, toolVars, verifyVars, updateVars>>

\* time passes
LTick ==
    /\ now + TickMs <= MaxNow
    /\ now' = now + TickMs
    /\ UNCHANGED <<lastRequestTime, requestCount, harnessVars, runVars, toolVars, verifyVars, updateVars>>

InitLimiter ==
    /\ now = StartTime
    /\ lastRequestTime = 0
    /\ requestCount = 0

InitHarness ==
    /\ callers = [c \in Callers |-> Idle]
    /\ ev = 0
    /\ history = <<>>

\* the harness runs no main: the run's variables stay as constructed
InitNoRun ==
    /\ mode = "quality"
    /\ dryRun = FALSE
    /\ pc = "harness"
    /\ results = <<>>
    /\ wakeAt = 0
    /\ connected = "pending"
    /\ signal = NoSignal
    /\ printed = NoReport
    /\ saved = NoReport
    /\ InitTool

InitVerify ==
    /\ testEmail \in BOOLEAN
    /\ contacts = <<>>
    /\ ci = 0
    /\ raised = <<>>
    /\ sidx = 0
    /\ searchResults = <<>>
    /\ attempts = <<>>
    /\ delays = 0

\* no verification runs: the loop's variables stay as constructed
InitNoVerify == InitVerify /\ testEmail = FALSE

InitUpdate ==
    /\ bi = 0
    /\ wstate = <<>>
    /\ writes = <<>>
    /\ successCount = 0
    /\ errorCount = 0
    /\ errors = <<>>
    /\ errorLog = <<>>
    /\ shown = <<>>
    /\ spinner = NoMessage

LimiterInit == InitLimiter /\ InitHarness /\ InitNoRun /\ InitNoVerify /\ InitUpdate

LimiterNext ==
    \/ \E c \in Callers : LCall(c)
    \/ \E c \in Callers : LWake(c)
    \/ LTick

SpecLimiter == LimiterInit /\ [][LimiterNext]_vars

\* ------------------------------------------------- updateSalesforce
Min(a, b) == IF a < b THEN a ELSE b

\* time that may have passed since the clock was last read, when main
\* comes to read it again
Elapsed == {0, minDelayMs}

\* new Date().toISOString().split('T')[0]
Today == "TODAY"

\* updateError.message when the CRM rejects the update of result k: the
\* CRM's answer is an input, and two different reasons occur
RejectReason(k) == IF k % 2 = 0 THEN "UNABLE_TO_LOCK_ROW" ELSE "REQUEST_LIMIT_EXCEEDED"

Unissued  == [st |-> "unissued",  reason |-> ""]
Pending   == [st |-> "pending",   reason |-> ""]
Fulfilled == [st |-> "fulfilled", reason |-> ""]
Rejected(text) == [st |-> "rejected", reason |-> text]

SkipsWrites_Never(flag) == FALSE

\* if (this.dryRun) { ...; return; }
SkipsWrites(flag) == flag

\* displayResults: one entry per result, with the fields it prints
DisplayResults(rs) ==
    [k \in 1..Len(rs) |->
        [name |-> rs[k].name, company |-> rs[k].company, status |-> rs[k].status,
         confidence |-> rs[k].confidence, notes |-> rs[k].notes,
         issues |-> rs[k].issues, recommendations |-> rs[k].recommendations]]

\* updateData of the data-quality program
UpdateData(r) ==
    [Id |-> r.id, Verification_Status__c |-> r.status,
     Verification_Notes__c |-> r.notes, Last_Verified__c |-> Today]

\* updateData of the search program: Source_URL__c only for a non-empty sourceUrl
UpdateDataWithSource_Always(r) ==
    [Id |-> r.id, Verification_Status__c |-> r.status,
     Verification_Notes__c |-> r.notes, Last_Verified__c |-> Today,
     Source_URL__c |-> r.sourceUrl]

UpdateDataWithSource(r) ==
    IF r.sourceUrl # ""
    THEN [Id |-> r.id, Verification_Status__c |-> r.status,
          Verification_Notes__c |-> r.notes, Last_Verified__c |-> Today,
          Source_URL__c |-> r.sourceUrl]
    ELSE [Id |-> r.id, Verification_Status__c |-> r.status,
          Verification_Notes__c |-> r.notes, Last_Verified__c |-> Today]

\* `Failed to update ${result.name}: ${updateError.message}`
ErrorMsg(name, text) == <<"Failed to update ", name, ": ", text>>

\* verificationResults.slice(i, i + batchSize), as indices 1..N
Batch(i) == (i + 1)..Min(i + batchSize, Len(results))

NextOffset_PlusOne(i) == i + 1

\* i += batchSize
NextOffset(i) == i + batchSize

BatchSettled_NoAwait(i) == TRUE

\* await Promise.all(updatePromises): every update of the batch has settled
BatchSettled(i) == \A k \in Batch(i) : wstate[k].st \in {"fulfilled", "rejected"}

\* batch.map(async (result) => ...): every update of the batch is sent, in order
IssueBatch ==
    /\ wstate' = [k \in 1..Len(results) |->
                    IF k \in Batch(bi) THEN Pending ELSE wstate[k]]
    /\ writes' = writes \o
                 [j \in 1..(Min(bi + batchSize, Len(results)) - bi) |->
                    UpdateData(results[bi + j])]

\* updateSalesforce is entered: the dry-run branch returns at once, the live
\* branch declares its counters
UpdateSalesforce ==
    /\ pc = "update"
    /\ IF SkipsWrites(dryRun)
       THEN /\ shown' = IF mode = "quality" THEN DisplayResults(results) ELSE shown
            /\ pc' = "report"
            /\ UNCHANGED <<bi, wstate, writes, successCount, errorCount, errors, errorLog, spinner>>
       ELSE /\ successCount' = 0
            /\ errorCount' = 0
            /\ errors' = <<>>
            /\ errorLog' = <<>>
            /\ bi' = 0
            /\ wstate' = [k \in 1..Len(results) |-> Unissued]
            /\ pc' = IF mode = "quality" THEN "upd_loop" ELSE "upd_each"
            /\ UNCHANGED <<writes, shown, spinner>>
    /\ UNCHANGED <<limiterVars, harnessVars, verifyVars, toolVars, mode, dryRun, connected, signal, printed, saved, results, wakeAt>>

\* head of the batch loop: the rate limiter is called for the batch, which
\* is sent when the limiter returns; after the last batch the spinner reports
BatchLoop ==
    /\ pc = "upd_loop"
    /\ IF bi < Len(results)
       THEN \E dt \in Elapsed :
              LET t == now + dt
                  d == Delay(t, lastRequestTime)
              IN  /\ now' = t
                  /\ IF d = 0
                     THEN /\ RecordRequest(t)
                          /\ IssueBatch
                          /\ pc' = "upd_await"
                          /\ UNCHANGED wakeAt
                     ELSE /\ wakeAt' = t + d
                          /\ pc' = "upd_throttle"
                          /\ UNCHANGED <<lastRequestTime, requestCount, wstate, writes>>
                  /\ UNCHANGED spinner
       ELSE /\ spinner' = IF errorCount = 0
                          THEN [kind |-> "succeed", successCount |-> successCount,
                                errorCount |-> 0]
                          ELSE [kind |-> "warn", successCount |-> successCount,
                                errorCount |-> errorCount]
            /\ pc' = "report"
            /\ UNCHANGED <<limiterVars, wakeAt, wstate, writes>>
    /\ UNCHANGED <<harnessVars, verifyVars, toolVars, mode, dryRun, connected, signal, printed, saved, results,
                   bi, successCount, errorCount, errors, errorLog, shown>>

\* the limiter's timer fires: the limiter returns and the batch is sent
BatchThrottled ==
    /\ pc = "upd_throttle"
    /\ now' = wakeAt
    /\ RecordRequest(wakeAt)
    /\ IssueBatch
    /\ pc' = "upd_await"
    /\ UNCHANGED <<harnessVars, verifyVars, toolVars, mode, dryRun, connected, signal, printed, saved, results, wakeAt,
                   bi, successCount, errorCount, errors, errorLog, shown, spinner>>

\* an update of the batch succeeds
UpdateFulfilled(k) ==
    /\ pc = "upd_await"
    /\ wstate[k] = Pending
    /\ wstate' = [wstate EXCEPT ![k] = Fulfilled]
    /\ successCount' = successCount + 1
    /\ UNCHANGED <<limiterVars, harnessVars, verifyVars, runVars, toolVars,
                   bi, writes, errorCount, errors, errorLog, shown, spinner>>

PushError_Dropped(list, msg) == list

\* errors.push(errorMsg)
PushError(list, msg) == Append(list, msg)

\* an update of the batch fails: the catch of its own callback counts it
UpdateRejected(k) ==
    /\ pc = "upd_await"
    /\ wstate[k] = Pending
    /\ errorCount < MaxWriteFailures
    /\ wstate' = [wstate EXCEPT ![k] = Rejected(RejectReason(k))]
    /\ errorCount' = errorCount + 1
    /\ errors' = PushError(errors, ErrorMsg(results[k].name, RejectReason(k)))
    /\ errorLog' = Append(errorLog, ErrorMsg(results[k].name, RejectReason(k)))
    /\ UNCHANGED <<limiterVars, harnessVars, verifyVars, runVars, toolVars,
                   bi, writes, successCount, shown, spinner>>

\* Promise.all resolves and the loop steps to the next batch
BatchDone ==
    /\ pc = "upd_await"
    /\ BatchSettled(bi)
    /\ bi' = NextOffset(bi)
    /\ pc' = "upd_loop"
    /\ UNCHANGED <<limiterVars, harnessVars, verifyVars, toolVars, mode, dryRun, connected, signal, printed, saved, results, wakeAt,
                   wstate, writes, successCount, errorCount, errors, errorLog, shown, spinner>>

\* search program: for (const result of verificationResults), one update
\* at a time, awaited before the next
UpdateEach ==
    /\ pc = "upd_each"
    /\ IF bi < Len(results)
       THEN /\ wstate' = [wstate EXCEPT ![bi + 1] = Pending]
            /\ writes' = Append(writes, UpdateDataWithSource(results[bi + 1]))
            /\ pc' = "upd_each_await"
            /\ UNCHANGED spinner
       ELSE /\ spinner' = [kind |-> "succeed", successCount |-> successCount,
                           errorCount |-> errorCount]
            /\ pc' = "report"
            /\ UNCHANGED <<wstate, writes>>
    /\ UNCHANGED <<limiterVars, harnessVars, verifyVars, toolVars, mode, dryRun, connected, signal, printed, saved, results, wakeAt,
                   bi, successCount, errorCount, errors, errorLog, shown>>

\* search program: the awaited update settles; a failure is counted and logged
UpdateEachSettled(ok) ==
    /\ pc = "upd_each_await"
    /\ ~ok => errorCount < MaxWriteFailures
    /\ wstate' = [wstate EXCEPT ![bi + 1] =
                    IF ok THEN Fulfilled ELSE Rejected(RejectReason(bi + 1))]
    /\ successCount' = IF ok THEN successCount + 1 ELSE successCount
    /\ errorCount' = IF ok THEN errorCount ELSE errorCount + 1
    /\ errorLog' = IF ok THEN errorLog
                   ELSE Append(errorLog,
                               ErrorMsg(results[bi + 1].name, RejectReason(bi + 1)))
    /\ bi' = bi + 1
    /\ pc' = "upd_each"
    /\ UNCHANGED <<limiterVars, harnessVars, verifyVars, toolVars, mode, dryRun, connected, signal, printed, saved, results, wakeAt,
                   writes, errors, shown, spinner>>

UpdateNext ==
    \/ UpdateSalesforce
    \/ BatchLoop
    \/ BatchThrottled
    \/ \E k \in 1..Len(results) : UpdateFulfilled(k)
    \/ \E k \in 1..Len(results) : UpdateRejected(k)
    \/ BatchDone
    \/ UpdateEach
    \/ \E ok \in BOOLEAN : UpdateEachSettled(ok)

\* ---- updateSalesforce on its own: any list of results, either program
QualityStatuses == <<"CONFIRMED", "NEEDS_REVIEW", "OUTDATED", "ERROR">>
SearchStatuses  == <<"CONFIRMED", "OUTDATED", "UNKNOWN">>

SampleResult(m, k) ==
    IF m = "quality"
    THEN [id |-> k, name |-> <<"name", k % 3>>, company |-> "Acme",
          status |-> QualityStatuses[(k % 4) + 1], confidence |-> k % 2,
          issues |-> <<>>, recommendations |-> <<>>,
          notes |-> <<"notes", k>>, lastModified |-> 0]
    ELSE [id |-> k, name |-> <<"name", k % 3>>,
          status |-> SearchStatuses[(k % 3) + 1], notes |-> <<"notes", k>>,
          sourceUrl |-> IF k % 3 = 2 THEN "" ELSE "https://linkedin.com/in/x"]

PersistInit ==
    /\ InitLimiter /\ InitHarness /\ InitNoVerify /\ InitUpdate
    /\ mode \in {"quality", "search"}
    /\ dryRun \in BOOLEAN
    /\ \E n \in 0..MaxResults : results = [k \in 1..n |-> SampleResult(mode, k)]
    /\ pc = "update"
    /\ wakeAt = 0
    /\ connected = "yes"
    /\ signal = NoSignal
    /\ printed = NoReport
    /\ saved = NoReport
    /\ InitTool

SpecPersist == PersistInit /\ [][UpdateNext]_vars

\* ------------------------------------------------------- the contacts
NoError == "none"

\* records of the search program's query (Title != null, Name != null)
SearchContacts ==
    { [Name |-> S_AlLi,   Account |-> S_Acme, Title |-> S_CEO],
      [Name |-> S_BoChan, Account |-> S_Acme, Title |-> S_CEO],
      [Name |-> S_AlLi,   Account |-> <<>>,   Title |-> S_CEO] }

\* result.records: n records with the Ids 1..n
Records(pool, n) ==
    { [k \in 1..n |-> [Id |-> k] @@ f[k]] : f \in [1..n -> pool] }

\* ----------------------------------------------------- searchLinkedIn
searchStrategies == <<"Google", "DuckDuckGo", "Bing">>

\* the anchors of a result page that match a[href*="linkedin.com/in/"],
\* each with the text of the title and snippet elements found in its
\* container (hasTitle, hasSnippet: whether one of the selectors matched)
Anchor1 == [href |-> "https://www.linkedin.com/in/al-li",
            hasTitle |-> TRUE, titleText |-> S_AlLiCEO, linkText |-> <<>>,
            hasSnippet |-> TRUE, snippetText |-> S_AcmeInc]
Anchor2 == [href |-> "https://www.linkedin.com/in/al-li-2",
            hasTitle |-> FALSE, titleText |-> <<>>, linkText |-> S_AlLi,
            hasSnippet |-> FALSE, snippetText |-> <<>>]
Anchor3 == [href |-> "https://www.linkedin.com/in/bo-chan",
            hasTitle |-> TRUE, titleText |-> S_BoChan, linkText |-> <<>>,
            hasSnippet |-> TRUE, snippetText |-> S_Acme]

Pages ==
    { <<>>, <<Anchor1>>, <<Anchor2, Anchor1>>, <<Anchor3>>,
      <<Anchor1, Anchor2, Anchor3, Anchor1, Anchor2, Anchor3>> }

\* what a strategy's navigation and page.evaluate can do: throw (timeout,
\* navigation failure, evaluation failure) or show a page
StrategyOutcomes ==
    {[threw |-> TRUE, page |-> <<>>]} \cup {[threw |-> FALSE, page |-> pg] : pg \in Pages}

\* foundResults.push({title, url, snippet}) for one anchor
Candidate(a) ==
    [title   |-> IF a.hasTitle THEN Trim(a.titleText) ELSE Trim(a.linkText),
     url     |-> a.href,
     snippet |-> IF a.hasSnippet THEN Trim(a.snippetText) ELSE <<>>]

Evaluate_NoSlice(page) == [k \in 1..Len(page) |-> Candidate(page[k])]

\* the function page.evaluate runs: foundResults.slice(0, 5)
Evaluate(page) == [k \in 1..Min(Len(page), 5) |-> Candidate(page[k])]

StopsAt_Never(found) == FALSE

\* if (results.length > 0) { ...; break; }
StopsAt(found) == Len(found) > 0

LeavesLoop_OnError(threw, found) == threw \/ StopsAt(found)

\* whether a turn of the strategy loop leaves the loop early: the catch
\* of a strategy's try only logs and continues, a non-empty list breaks
LeavesLoop(threw, found) == ~threw /\ StopsAt(found)

\* ------------------------------------------------------ verifyContact
\* contact.Account?.Name || 'Unknown Company'
CompanyName(contact) ==
    IF contact.Account = <<>> THEN S_UnknownCompany ELSE contact.Account

NameMatch_Any(contact, bestMatch) ==
    LET nameParts == Split(ToLowerCase(contact.Name), " ")
    IN  \E j \in 1..Len(nameParts) :
            \/ Includes(ToLowerCase(bestMatch.title), nameParts[j])
            \/ Includes(ToLowerCase(bestMatch.snippet), nameParts[j])

\* nameParts.every(part => titleLower.includes(part) || snippetLower.includes(part))
NameMatch(contact, bestMatch) ==
    LET nameParts    == Split(ToLowerCase(contact.Name), " ")
        titleLower   == ToLowerCase(bestMatch.title)
        snippetLower == ToLowerCase(bestMatch.snippet)
    IN  \A j \in 1..Len(nameParts) :
            \/ Includes(titleLower, nameParts[j])
            \/ Includes(snippetLower, nameParts[j])

CompanyMatch_Always(contact, bestMatch) == TRUE

\* snippetLower.includes(companyName.toLowerCase())
CompanyMatch(contact, bestMatch) ==
    Includes(ToLowerCase(bestMatch.snippet), ToLowerCase(CompanyName(contact)))

BestMatch_Last(found) == found[Len(found)]

\* const bestMatch = searchResults[0]
BestMatch(found) == found[1]

\* the matching logic of verifyContact on a non-empty result list
Classify(contact, found) ==
    LET bestMatch    == BestMatch(found)
        nameMatch    == NameMatch(contact, bestMatch)
        companyMatch == CompanyMatch(contact, bestMatch)
    IN  IF nameMatch /\ companyMatch
        THEN [status |-> "CONFIRMED",
              notes |-> <<"Contact verified via LinkedIn. Found: ", bestMatch.title>>,
              sourceUrl |-> bestMatch.url]
        ELSE IF nameMatch
        THEN [status |-> "OUTDATED",
              notes |-> <<"Person found but may have changed companies. Current info: ",
                          bestMatch.title>>,
              sourceUrl |-> bestMatch.url]
        ELSE [status |-> "UNKNOWN",
              notes |-> <<"Found LinkedIn results but couldn't confirm match. Best result: ",
                          bestMatch.title>>,
              sourceUrl |-> ""]

InitialVerdict_Outdated ==
    [status |-> "OUTDATED", notes |-> <<"Could not find contact on LinkedIn", <<>> >>,
     sourceUrl |-> ""]

\* let status = 'UNKNOWN'; let notes = ...; let sourceUrl = ''
InitialVerdict ==
    [status |-> "UNKNOWN", notes |-> <<"Could not find contact on LinkedIn", <<>> >>,
     sourceUrl |-> ""]

\* the object verifyContact returns after the search
SearchResult(contact, found) ==
    LET verdict == IF Len(found) > 0
                   THEN Classify(contact, found)
                   ELSE InitialVerdict
    IN  [id |-> contact.Id, name |-> contact.Name, status |-> verdict.status,
         notes |-> verdict.notes, sourceUrl |-> verdict.sourceUrl]

\* the object verifyContact returns without searching
NoCompanyResult(contact) ==
    [id |-> contact.Id, name |-> contact.Name, status |-> "UNKNOWN",
     notes |-> <<"No company information available for verification", <<>> >>,
     sourceUrl |-> ""]

\* --------------------------------------------------------------- main
Connect_GoesOn(ok) ==
    /\ pc = "connect"
    /\ connected' = IF ok THEN "yes" ELSE "no"
    /\ pc' = "query"
    /\ UNCHANGED <<limiterVars, harnessVars, verifyVars, updateVars,
                   toolVars, mode, dryRun, signal, printed, saved, results, wakeAt>>

\* connectToSalesforce returns; on false main calls process.exit(1)
Connect(ok) ==
    /\ pc = "connect"
    /\ connected' = IF ok THEN "yes" ELSE "no"
    /\ pc' = IF ok THEN "query" ELSE "exit1"
    /\ UNCHANGED <<limiterVars, harnessVars, verifyVars, updateVars,
                   toolVars, mode, dryRun, signal, printed, saved, results, wakeAt>>

\* the time enforceRateLimit returns at when it is entered at t
ThrottledUntil(t) == t + Delay(t, lastRequestTime)

\* getContactsToVerify (the data-quality program calls the rate limiter
\* first) and main's check of the list: an empty list, also the one a
\* failed query gives, ends the run
GetContactsToVerify(ok, cs) ==
    /\ pc = "query"
    /\ IF mode = "quality"
       THEN /\ now' = ThrottledUntil(now)
            /\ RecordRequest(ThrottledUntil(now))
       ELSE UNCHANGED limiterVars
    /\ contacts' = IF ok THEN cs ELSE <<>>
    /\ pc' = IF ok /\ Len(cs) > 0 THEN "verify" ELSE "done"
    /\ UNCHANGED <<harnessVars, updateVars, toolVars, mode, dryRun, connected, signal, printed, saved, results, wakeAt,
                   testEmail, ci, raised, sidx, searchResults, attempts, delays>>

DelaysAfter_Every(i, n) == TRUE

\* if (i < contacts.length - 1): the courtesy delay follows every contact
\* but the last
DelaysAfter(i, n) == i < n - 1

\* results.push(result) and the step of main's loop; the search program
\* sleeps its courtesy delay unless the contact was the last
PushResult(r) ==
    /\ results' = Append(results, r)
    /\ IF mode = "search" /\ DelaysAfter(ci, Len(contacts))
       THEN pc' = "courtesy" /\ UNCHANGED ci
       ELSE /\ ci' = ci + 1
            /\ pc' = IF ci + 1 < Len(contacts) THEN "verify" ELSE "update"

\* ---------------------------------------------- data-quality program
\* records of the data-quality query (Name != null); AgeDays is the
\* time since LastModifiedDate, in days
QualityContacts ==
    { [Name |-> S_AlLi, Account |-> S_Acme, Title |-> S_CEO,
       Email |-> S_Email, AgeDays |-> 30],
      [Name |-> S_AlLi, Account |-> S_Acme, Title |-> <<>>,
       Email |-> <<>>, AgeDays |-> 400],
      [Name |-> S_AlLi, Account |-> <<>>, Title |-> <<>>,
       Email |-> S_Email, AgeDays |-> 30],
      [Name |-> S_X, Account |-> S_Acme, Title |-> S_CEO,
       Email |-> S_BadEmail, AgeDays |-> 370] }

\* /^[^\s@]+@[^\s@]+\.[^\s@]+$/.test(email)
EmailFormatOk(email) ==
    \E at \in 2..Len(email) : \E dot \in (at + 2)..(Len(email) - 1) :
        /\ email[at] = "@"
        /\ email[dot] = "."
        /\ \A k \in 1..Len(email) : email[k] # " " /\ (email[k] = "@" => k = at)

\* what dns.resolveMx can do: give records, give none, or throw
DnsOutcomes == {"mx", "nomx", "fail"}

\* whether validateEmail gets as far as the DNS lookup
LooksUpDns(email) == email # <<>> /\ testEmail /\ EmailFormatOk(email)

ValidateEmail_Swallows(email, dns) ==
    IF email = <<>> \/ ~testEmail
    THEN [valid |-> "null", reason |-> "Email validation disabled"]
    ELSE IF ~EmailFormatOk(email)
    THEN [valid |-> "false", reason |-> "Invalid email format"]
    ELSE IF dns = "mx"
    THEN [valid |-> "true", reason |-> "Domain has valid MX records"]
    ELSE IF dns = "nomx"
    THEN [valid |-> "false", reason |-> "No MX records found for domain"]
    ELSE [valid |-> "null", reason |-> "DNS lookup failed: ENOTFOUND"]

\* validateEmail: {valid, reason}; valid is "null", "true" or "false"
ValidateEmail(email, dns) ==
    IF email = <<>> \/ ~testEmail
    THEN [valid |-> "null", reason |-> "Email validation disabled"]
    ELSE IF ~EmailFormatOk(email)
    THEN [valid |-> "false", reason |-> "Invalid email format"]
    ELSE IF dns = "mx"
    THEN [valid |-> "true", reason |-> "Domain has valid MX records"]
    ELSE IF dns = "nomx"
    THEN [valid |-> "false", reason |-> "No MX records found for domain"]
    ELSE [valid |-> "false", reason |-> "DNS lookup failed: ENOTFOUND"]

Issue(text, detail, months) == [text |-> text, detail |-> detail, months |-> months]

\* verificationStatus after the name check
CheckName(contact, vs) ==
    IF contact.Name = <<>> \/ Len(Trim(contact.Name)) < 2
    THEN [vs EXCEPT !.issues = Append(@, Issue("Name is missing or too short", "", 0)),
                    !.dataQuality = "POOR",
                    !.confidence = FSub(@, D_0_3)]
    ELSE vs

\* ... after the company check
CheckCompany(contact, vs) ==
    IF CompanyName(contact) = S_UnknownCompany \/ contact.Account = <<>>
    THEN [vs EXCEPT !.issues = Append(@, Issue("No company information available", "", 0)),
                    !.dataQuality = "FAIR",
                    !.confidence = FSub(@, D_0_2)]
    ELSE vs

\* ... after the title check
CheckTitle(contact, vs) ==
    IF contact.Title = <<>>
    THEN [vs EXCEPT !.issues = Append(@, Issue("Job title is missing", "", 0)),
                    !.recommendations =
                        Append(@, "Add job title for better identification"),
                    !.confidence = FSub(@, D_0_1)]
    ELSE vs

\* ... after the email check
CheckEmail(contact, dns, vs) ==
    IF contact.Email # <<>>
    THEN LET emailValidation == ValidateEmail(contact.Email, dns) IN
         IF emailValidation.valid = "false"
         THEN [vs EXCEPT !.issues =
                             Append(@, Issue("Email issue: ", emailValidation.reason, 0)),
                         !.dataQuality = "FAIR",
                         !.confidence = FSub(@, D_0_2)]
         ELSE IF emailValidation.valid = "true"
         THEN [vs EXCEPT !.recommendations = Append(@, "Email domain appears valid")]
         ELSE vs
    ELSE [vs EXCEPT !.recommendations = Append(@, "Consider adding email address")]

\* ... after the staleness check: monthsOld > 12, with months of 30 days
CheckStale(contact, vs) ==
    IF contact.AgeDays > 12 * 30
    THEN [vs EXCEPT !.issues =
                        Append(@, Issue("Contact not updated in ", " months",
                                        contact.AgeDays \div 30)),
                    !.recommendations =
                        Append(@, "Consider reaching out to verify current information"),
                    !.confidence = FSub(@, D_0_1)]
    ELSE vs

OverallStatus_AtLeastHalf(vs) ==
    IF Len(vs.issues) = 0 THEN "CONFIRMED"
    ELSE IF Len(vs.issues) <= 2 /\ (FGt(vs.confidence, D_0_5) \/ vs.confidence = D_0_5)
    THEN "NEEDS_REVIEW"
    ELSE "OUTDATED"

\* "Determine overall status"
OverallStatus(vs) ==
    IF Len(vs.issues) = 0 THEN "CONFIRMED"
    ELSE IF Len(vs.issues) <= 2 /\ FGt(vs.confidence, D_0_5) THEN "NEEDS_REVIEW"
    ELSE "OUTDATED"

\* generateVerificationNotes: the parts it joins
GenerateVerificationNotes(vs) ==
    [dataQuality |-> vs.dataQuality, issues |-> vs.issues,
     recommendations |-> vs.recommendations, percent |-> ToPercent(vs.confidence)]

\* verificationStatus when verifyContactData reaches its return
Assess(contact, dns) ==
    CheckStale(contact,
      CheckEmail(contact, dns,
        CheckTitle(contact,
          CheckCompany(contact,
            CheckName(contact,
              [dataQuality |-> "GOOD", issues |-> <<>>, recommendations |-> <<>>,
               confidence |-> D_0_8])))))

\* the object verifyContactData returns
QualityResult(contact, dns) ==
    LET vs == Assess(contact, dns) IN
    [id |-> contact.Id, name |-> contact.Name, company |-> CompanyName(contact),
     status |-> OverallStatus(vs), confidence |-> Clamp01(vs.confidence),
     issues |-> vs.issues, recommendations |-> vs.recommendations,
     notes |-> GenerateVerificationNotes(vs), lastModified |-> contact.AgeDays]

\* the object main pushes in its catch
ErrorResult(contact, message) ==
    [id |-> contact.Id, name |-> contact.Name,
     company |-> IF contact.Account = <<>> THEN <<"U","n","k","n","o","w","n">>
                 ELSE contact.Account,
     status |-> "ERROR", confidence |-> D_0,
     issues |-> <<Issue("Processing error occurred", "", 0)>>,
     recommendations |-> <<"Manual review required">>,
     notes |-> [prefix |-> "Error during verification: ", message |-> message],
     lastModified |-> contact.AgeDays]

Recover_LogOnly(contact, message) ==
    /\ UNCHANGED results
    /\ ci' = ci + 1
    /\ pc' = IF ci + 1 < Len(contacts) THEN "verify" ELSE "update"

\* main's catch: the error result is pushed and the loop goes on
Recover(contact, message) == PushResult(ErrorResult(contact, message))

\* data-quality program, one turn of main's loop: verifyContactData(contact)
\* returns its result, or throws into main's catch. validateEmail calls the
\* rate limiter before its DNS lookup; dt is the time since the clock was
\* last read.
VerifyContactData(dns, dt, message) ==
    /\ pc = "verify" /\ mode = "quality"
    /\ raised' = Append(raised, message)
    /\ LET contact == contacts[ci + 1] IN
       IF message # NoError
       THEN /\ Recover(contact, message)
            /\ UNCHANGED limiterVars
       ELSE /\ PushResult(QualityResult(contact, dns))
            /\ IF LooksUpDns(contact.Email)
               THEN /\ now' = ThrottledUntil(now + dt)
                    /\ RecordRequest(ThrottledUntil(now + dt))
               ELSE UNCHANGED limiterVars
    /\ UNCHANGED <<harnessVars, updateVars, toolVars, mode, dryRun, connected, signal, printed, saved, wakeAt,
                   testEmail, contacts, sidx, searchResults, attempts, delays>>

\* search program: verifyContact is called for contacts[i]; without a
\* company it returns at once, otherwise searchLinkedIn starts
VerifyContact ==
    /\ pc = "verify" /\ mode = "search"
    /\ raised' = Append(raised, NoError)
    /\ IF CompanyName(contacts[ci + 1]) = S_UnknownCompany
       THEN PushResult(NoCompanyResult(contacts[ci + 1]))
       ELSE pc' = "launch" /\ UNCHANGED <<results, ci>>
    /\ sidx' = 0
    /\ searchResults' = <<>>
    /\ attempts' = <<>>
    /\ UNCHANGED <<limiterVars, harnessVars, updateVars, toolVars, mode, dryRun, connected, signal, printed, saved, wakeAt,
                   testEmail, contacts, delays>>

SearchLaunch_Propagates(ok) ==
    /\ pc = "launch"
    /\ IF ok
       THEN /\ sidx' = 1
            /\ pc' = "strategy"
            /\ UNCHANGED raised
       ELSE /\ raised' = [raised EXCEPT ![ci + 1] = "Failed to launch the browser process"]
            /\ pc' = "crashed"
            /\ UNCHANGED sidx
    /\ UNCHANGED <<limiterVars, harnessVars, updateVars, toolVars, mode, dryRun, connected, signal, printed, saved, results, wakeAt,
                   testEmail, contacts, ci, searchResults, attempts, delays>>

\* searchLinkedIn before its strategy loop: the browser and the page are
\* set up; a failure is caught by the outer catch, which returns []
SearchLaunch(ok) ==
    /\ pc = "launch"
    /\ IF ok
       THEN /\ sidx' = 1
            /\ pc' = "strategy"
            /\ UNCHANGED raised
       ELSE /\ raised' = [raised EXCEPT ![ci + 1] = "Failed to launch the browser process"]
            /\ pc' = "classify"
            /\ UNCHANGED sidx
    /\ UNCHANGED <<limiterVars, harnessVars, updateVars, toolVars, mode, dryRun, connected, signal, printed, saved, results, wakeAt,
                   testEmail, contacts, ci, searchResults, attempts, delays>>

\* one turn of the strategy loop: searchStrategies[sidx] is requested; a
\* throw is caught and the loop continues, a non-empty list breaks it
SearchStrategy(o) ==
    /\ pc = "strategy"
    /\ LET found == IF o.threw THEN searchResults ELSE Evaluate(o.page)
           stop  == LeavesLoop(o.threw, found)
       IN  /\ attempts' = Append(attempts,
                  [engine |-> searchStrategies[sidx], threw |-> o.threw,
                   found |-> IF o.threw THEN <<>> ELSE Evaluate(o.page)])
           /\ searchResults' = found
           /\ IF stop \/ sidx = Len(searchStrategies)
              THEN pc' = "classify" /\ UNCHANGED sidx
              ELSE sidx' = sidx + 1 /\ UNCHANGED pc
    /\ UNCHANGED <<limiterVars, harnessVars, updateVars, toolVars, mode, dryRun, connected, signal, printed, saved, results, wakeAt,
                   testEmail, contacts, ci, raised, delays>>

\* searchLinkedIn has returned: verifyContact classifies and main pushes
VerifyContactReturns ==
    /\ pc = "classify"
    /\ PushResult(SearchResult(contacts[ci + 1], searchResults))
    /\ UNCHANGED <<limiterVars, harnessVars, updateVars, toolVars, mode, dryRun, connected, signal, printed, saved, wakeAt,
                   testEmail, contacts, raised, sidx, searchResults, attempts, delays>>

\* search program: the 3000 ms between two contacts have passed
CourtesyDelay ==
    /\ pc = "courtesy"
    /\ now' = now + courtesyDelayMs
    /\ delays' = delays + 1
    /\ ci' = ci + 1
    /\ pc' = IF ci + 1 < Len(contacts) THEN "verify" ELSE "update"
    /\ UNCHANGED <<lastRequestTime, requestCount, harnessVars, updateVars, toolVars, mode, dryRun, connected, signal, printed, saved, results, wakeAt,
                   testEmail, contacts, raised, sidx, searchResults, attempts>>

\* ------------------------------------------------------------ report
\* results.reduce((acc, result) => { acc[result.status] = (acc[result.status] || 0) + 1 }, {}):
\* an object with one key per status that occurs
StatusCounts(rs) ==
    [st \in {rs[k].status : k \in 1..Len(rs)} |->
        Cardinality({k \in 1..Len(rs) : rs[k].status = st})]

\* the value of a property an object does not have, and the double that
\* arithmetic on it gives
Undefined == [undefined |-> TRUE]
NaN == [nan |-> TRUE]

\* r.confidence
Confidence(r) == IF "confidence" \in DOMAIN r THEN r.confidence ELSE Undefined

\* sum + r.confidence in doubles
Plus(x, y) == IF x \in {Undefined, NaN} \/ y \in {Undefined, NaN} THEN NaN ELSE FAdd(x, y)

\* results.reduce((sum, r) => sum + r.confidence, 0)
RECURSIVE TotalConfidence(_)
TotalConfidence(rs) ==
    IF rs = <<>> THEN D_0
    ELSE CHOOSE total \in {Plus(sum, Confidence(rs[Len(rs)])) :
                              sum \in {TotalConfidence(SubSeq(rs, 1, Len(rs) - 1))}} : TRUE

\* total / results.length: the quotient of a double by a positive count,
\* kept as its two operands
Quotient(total, count) == IF total = NaN THEN NaN ELSE [total |-> total, count |-> count]

\* averageConfidence / avgConfidence of the data-quality program
AverageConfidence(rs) == Quotient(TotalConfidence(rs), Len(rs))

\* what generateReport prints: the count per status, the total, and in
\* the data-quality program the average confidence and this.requestCount
Summary(rs) ==
    IF mode = "quality"
    THEN [kind |-> "summary", counts |-> StatusCounts(rs), totalProcessed |-> Len(rs),
          averageConfidence |-> AverageConfidence(rs), apiCalls |-> requestCount]
    ELSE [kind |-> "summary", counts |-> StatusCounts(rs), totalProcessed |-> Len(rs)]

\* reportData of saveReport
ReportData(rs) ==
    [kind |-> "file", summary |-> StatusCounts(rs), totalProcessed |-> Len(rs),
     averageConfidence |-> AverageConfidence(rs), details |-> rs]

\* generateReport(results); the data-quality main goes on to saveReport,
\* the search main is complete
GenerateReport ==
    /\ pc = "report"
    /\ printed' = Summary(results)
    /\ pc' = IF mode = "quality" THEN "save" ELSE "complete"
    /\ UNCHANGED <<limiterVars, harnessVars, verifyVars, updateVars,
                   toolVars, mode, dryRun, connected, signal, saved, results, wakeAt>>

\* saveReport(results): fs.writeFileSync writes the file, or throws and
\* the catch only logs
SaveReport(ok) ==
    /\ pc = "save"
    /\ saved' = IF ok THEN ReportData(results) ELSE NoReport
    /\ pc' = "complete"
    /\ UNCHANGED <<limiterVars, harnessVars, verifyVars, updateVars,
                   toolVars, mode, dryRun, connected, signal, printed, results, wakeAt>>

\* the points at which the process has ended
EndedPcs == {"exit1", "done", "complete", "exit0", "killed", "crashed"}

Interrupt_OnlyLogs ==
    /\ pc \notin EndedPcs
    /\ signal = NoSignal
    /\ signal' = "SIGINT"
    /\ UNCHANGED <<limiterVars, harnessVars, verifyVars, updateVars,
                   toolVars, mode, dryRun, connected, printed, saved, pc, results, wakeAt>>

\* SIGINT arrives while the process is alive: the data-quality program's
\* handler logs and calls process.exit(0); the search program installs no
\* handler, so the signal's default action ends the process
Interrupt ==
    /\ pc \notin EndedPcs
    /\ signal = NoSignal
    /\ signal' = "SIGINT"
    /\ pc' = IF mode = "quality" THEN "exit0" ELSE "killed"
    /\ UNCHANGED <<limiterVars, harnessVars, verifyVars, updateVars,
                   toolVars, mode, dryRun, connected, printed, saved, results, wakeAt>>

Init ==
    /\ InitLimiter /\ InitHarness /\ InitVerify /\ InitUpdate
    /\ mode \in {"quality", "search"}
    /\ mode = "search" => testEmail = FALSE
    /\ dryRun \in BOOLEAN
    /\ pc = "connect"
    /\ results = <<>>
    /\ wakeAt = 0
    /\ connected = "pending"
    /\ signal = NoSignal
    /\ printed = NoReport
    /\ saved = NoReport
    /\ InitTool

Next ==
    \/ \E ok \in BOOLEAN : Connect(ok)
    \/ \E n \in 0..MaxContacts :
          \E cs \in Records(IF mode = "quality" THEN QualityContacts ELSE SearchContacts, n) :
             \E ok \in BOOLEAN : GetContactsToVerify(ok, cs)
    \/ \E dns \in DnsOutcomes : \E dt \in Elapsed :
          \E message \in {NoError, "Cannot read properties of undefined"} :
             VerifyContactData(dns, dt, message)
    \/ VerifyContact
    \/ \E ok \in BOOLEAN : SearchLaunch(ok)
    \/ \E o \in StrategyOutcomes : SearchStrategy(o)
    \/ VerifyContactReturns
    \/ CourtesyDelay
    \/ UpdateNext
    \/ GenerateReport
    \/ \E ok \in BOOLEAN : SaveReport(ok)

Spec == Init /\ [][Next]_vars

\* ------------------------------------------------ the run under fairness
\* The same run with fewer inputs, for what it eventually does.  Node's
\* event loop runs every continuation that is ready, and every awaited
\* promise of the run (CRM call, page navigation with its timeout, DNS
\* lookup, timer) settles: a step that stays possible is taken.
MaxLiveContacts == 2

\* records the two queries can return
LiveQuality == {c \in QualityContacts : c.AgeDays = 30}
LiveSearch == {c \in SearchContacts : c.Name = S_AlLi}

\* a strategy throws, or shows a page with one profile link
LiveOutcomes ==
    {o \in StrategyOutcomes : o.page \in {<<>>, <<Anchor1>>} /\ (o.threw \/ o.page # <<>>)}

LiveNext ==
    \/ \E ok \in BOOLEAN : Connect(ok)
    \/ \E n \in 0..MaxLiveContacts :
          \E cs \in Records(IF mode = "quality" THEN LiveQuality ELSE LiveSearch, n) :
             \E ok \in BOOLEAN : GetContactsToVerify(ok, cs)
    \/ \E dns \in DnsOutcomes : \E dt \in Elapsed :
          \E message \in {NoError, "Cannot read properties of undefined"} :
             VerifyContactData(dns, dt, message)
    \/ VerifyContact
    \/ \E ok \in BOOLEAN : SearchLaunch(ok)
    \/ \E o \in LiveOutcomes : SearchStrategy(o)
    \/ VerifyContactReturns
    \/ CourtesyDelay
    \/ UpdateNext
    \/ GenerateReport
    \/ \E ok \in BOOLEAN : SaveReport(ok)

SpecLive == Init /\ [][LiveNext]_vars /\ WF_vars(LiveNext)

\* ------------------------------------------------- the run interrupted
\* the same run, in which SIGINT can arrive between any two steps
InterruptNext ==
    \/ LiveNext
    \/ Interrupt

SpecInterrupt == Init /\ [][InterruptNext]_vars

\* ------------------------------------------------ the report on its own
\* generateReport and saveReport of the data-quality class on any list of
\* results: the results of either program, or of both
MaxReportResults == 3

ReportSamples ==
    {QualityResult([Id |-> 1] @@ c, "mx") : c \in QualityContacts}
    \cup {ErrorResult([Id |-> 1] @@ c, "Cannot read properties of undefined") :
             c \in {c \in QualityContacts : c.AgeDays = 400}}
    \cup {NoCompanyResult([Id |-> 1] @@ c) : c \in {c \in SearchContacts : c.Account = <<>>}}

ReportInit ==
    /\ InitLimiter /\ InitHarness /\ InitNoVerify /\ InitUpdate
    /\ mode = "quality"
    /\ dryRun \in BOOLEAN
    /\ \E n \in 1..MaxReportResults : results \in [1..n -> ReportSamples]
    /\ pc = "report"
    /\ wakeAt = 0
    /\ connected = "yes"
    /\ signal = NoSignal
    /\ printed = NoReport
    /\ saved = NoReport
    /\ InitTool

ReportNext ==
    \/ GenerateReport
    \/ \E ok \in BOOLEAN : SaveReport(ok)

SpecReport == ReportInit /\ [][ReportNext]_vars

\* ------------------------------------------- classification on its own
\* verifyContact from the return of searchLinkedIn on, for one contact
\* with a company and any list searchLinkedIn can return
ClassifyNames == {S_AlLi, S_BoChan, S_AlJLi, S_AlDashLi, S_AlanLi, S_ALLI}
ClassifyCompanies == {S_Acme, S_Initech}

UrlOf(title) ==
    IF title = S_TitleAlLi THEN "https://www.linkedin.com/in/al-li"
    ELSE IF title = S_TitleBo THEN "https://www.linkedin.com/in/bo-chan"
    ELSE "https://www.linkedin.com/in/ceo"

\* {title, url, snippet} objects page.evaluate can return
ClassifyCandidates ==
    { [title |-> t, url |-> UrlOf(t), snippet |-> sn] :
        t \in {S_TitleAlLi, S_TitleBo, S_TitleCEO},
        sn \in {S_AcmeInc, S_AtInitech, S_AlLiAcme, <<>>} }

\* lists of one candidate, and of a candidate followed by another
ClassifyLists ==
    {<<>>} \cup { <<c>> : c \in ClassifyCandidates }
           \cup { <<c, d>> : c \in ClassifyCandidates,
                             d \in { [title |-> S_TitleAlLi, url |-> UrlOf(S_TitleAlLi),
                                      snippet |-> S_AcmeInc],
                                     [title |-> S_TitleBo, url |-> UrlOf(S_TitleBo),
                                      snippet |-> <<>>] } }

\* what the strategy loop has left behind when it returned list
AttemptsFor(list) ==
    IF Len(list) > 0
    THEN <<[engine |-> searchStrategies[1], threw |-> FALSE, found |-> list]>>
    ELSE [j \in 1..Len(searchStrategies) |->
             [engine |-> searchStrategies[j], threw |-> FALSE, found |-> <<>>]]

ClassifyInit ==
    /\ InitLimiter /\ InitHarness /\ InitUpdate
    /\ mode = "search"
    /\ dryRun \in BOOLEAN
    /\ pc = "classify"
    /\ results = <<>>
    /\ wakeAt = 0
    /\ testEmail = FALSE
    /\ ci = 0
    /\ raised = <<NoError>>
    /\ delays = 0
    /\ \E name \in ClassifyNames : \E company \in ClassifyCompanies :
          contacts = <<[Id |-> 1, Name |-> name, Account |-> company, Title |-> S_CEO]>>
    /\ \E list \in ClassifyLists :
          /\ searchResults = list
          /\ attempts = AttemptsFor(list)
          /\ sidx = Len(AttemptsFor(list))
    /\ connected = "yes"
    /\ signal = NoSignal
    /\ printed = NoReport
    /\ saved = NoReport
    /\ InitTool

SpecClassify == ClassifyInit /\ [][VerifyContactReturns]_vars

\* ----------------------------------------------- assessment on its own
\* one turn of the data-quality main's loop, for every combination of
\* the fields verifyContactData looks at
AssessContacts ==
    { [Id |-> 1, Name |-> n, Account |-> a, Title |-> t, Email |-> e, AgeDays |-> d] :
        n \in {S_AlLi, S_X}, a \in {S_Acme, <<>>}, t \in {S_CEO, <<>>},
        e \in {S_Email, S_BadEmail, <<>>}, d \in {30, 360, 361, 400} }

\* the query of getContactsToVerify has gone through the rate limiter and
\* has returned one contact
AssessInit ==
    /\ now = StartTime
    /\ lastRequestTime = StartTime
    /\ requestCount = 1
    /\ InitHarness /\ InitUpdate
    /\ mode = "quality"
    /\ dryRun = FALSE
    /\ pc = "verify"
    /\ results = <<>>
    /\ wakeAt = 0
    /\ testEmail \in BOOLEAN
    /\ \E c \in AssessContacts : contacts = <<c>>
    /\ ci = 0
    /\ raised = <<>>
    /\ sidx = 0
    /\ searchResults = <<>>
    /\ attempts = <<>>
    /\ delays = 0
    /\ connected = "yes"
    /\ signal = NoSignal
    /\ printed = NoReport
    /\ saved = NoReport
    /\ InitTool

AssessNext ==
    \E dns \in DnsOutcomes : \E dt \in Elapsed :
       \E message \in {NoError, "Cannot read properties of undefined"} :
          VerifyContactData(dns, dt, message)

SpecAssess == AssessInit /\ [][AssessNext]_vars

\* ------------------------------------------------ the protocol wrapper
\* SalesforceVerifierServer: the handler of tool calls.  A text is the
\* tuple of the parts a template literal puts together.
MaxToolRecords == 2   \* records an operation of the wrapper gives back

\* the tools the server lists
toolNames ==
    {"get_contacts", "verify_contact", "update_contact_verification",
     "get_verification_stats"}

\* request.params.name: any string
RequestNames == toolNames \cup {"delete_contact", ""}

\* request.params.arguments: left out, or an object
ToolArguments ==
    {Undefined} \cup
    {[contactId |-> id, contactName |-> n, status |-> st] :
        id \in {"003A", "003B"}, n \in {"Al Li", "Bo Chan"},
        st \in {"CONFIRMED", "OUTDATED"}}

\* what the operation behind a tool does (getContacts, verifyContact,
\* getSalesforceConnection with conn.update or conn.query): it rejects
\* with an Error, or gives count records
ToolFailures == {"INVALID_SESSION_ID", "ECONNRESET", "Navigation timeout"}

OperationOutcomes ==
    {[threw |-> TRUE, message |-> m, count |-> 0] : m \in ToolFailures}
    \cup {[threw |-> FALSE, message |-> "", count |-> n] : n \in 0..MaxToolRecords}

\* { content: [{ type: 'text', text }] }
TextResponse(text) ==
    [kind |-> "response", content |-> <<[type |-> "text", text |-> text]>>]

\* how a call ends: with an Error thrown, or with a value returned
Throws(message) == [threw |-> TRUE, message |-> message, value |-> NoResponse]
Returns(value) == [threw |-> FALSE, message |-> <<>>, value |-> value]

\* const { limit = 10, ... } = args, with args undefined: a TypeError
DestructureError(property) ==
    <<"Cannot destructure property '", property, "' of 'args' as it is undefined.">>

\* getContacts(args)
ToolGetContacts(args, op) ==
    IF args = Undefined THEN Throws(DestructureError("limit"))
    ELSE IF op.threw THEN Throws(<<op.message>>)
    ELSE Returns(TextResponse(<<"Found ", op.count, " contacts that need verification:\n">>))

\* verifyContact(args)
ToolVerifyContact(args, op) ==
    IF args = Undefined THEN Throws(DestructureError("contactId"))
    ELSE IF op.threw THEN Throws(<<op.message>>)
    ELSE Returns(TextResponse(<<"Verification result for ", args.contactName, ":\n">>))

\* updateContactVerification(args)
ToolUpdateContactVerification(args, op) ==
    IF args = Undefined THEN Throws(DestructureError("contactId"))
    ELSE IF op.threw THEN Throws(<<op.message>>)
    ELSE Returns(TextResponse(<<"Successfully updated contact ", args.contactId,
                                " with status: ", args.status>>))

\* getVerificationStats()
ToolGetVerificationStats(args, op) ==
    IF op.threw THEN Throws(<<op.message>>)
    ELSE Returns(TextResponse(<<"Contact Verification Statistics:\n", op.count>>))

\* switch (name) { ... default: throw new Error(`Unknown tool: ${name}`) }
Dispatch(name, args, op) ==
    CASE name = "get_contacts" -> ToolGetContacts(args, op)
      [] name = "verify_contact" -> ToolVerifyContact(args, op)
      [] name = "update_contact_verification" -> ToolUpdateContactVerification(args, op)
      [] name = "get_verification_stats" -> ToolGetVerificationStats(args, op)
      [] OTHER -> Throws(<<"Unknown tool: ", name>>)

Catch_Rethrows(completion) == completion

\* try { ... } catch (error) { return { content: [{ type: 'text',
\* text: `Error: ${error.message}` }] } }
Catch(completion) ==
    IF completion.threw
    THEN Returns(TextResponse(<<"Error: ">> \o completion.message))
    ELSE completion

\* the handler as a whole: how the call ends for its caller
CallToolHandler(req, op) == Catch(Dispatch(req.name, req.arguments, op))

\* a tool call arrives
ReceiveCall(name, args) ==
    /\ pc = "harness"
    /\ request' = [kind |-> "call", name |-> name, arguments |-> args]
    /\ response' = NoResponse
    /\ UNCHANGED <<limiterVars, harnessVars, runVars, verifyVars, updateVars>>

\* the handler runs to its end and the caller gets what it returned, or
\* the Error it raised
CallTool(op) ==
    /\ request # NoRequest
    /\ response = NoResponse
    /\ LET completion == CallToolHandler(request, op) IN
       response' = IF completion.threw
                   THEN [kind |-> "raised", message |-> completion.message]
                   ELSE completion.value
    /\ UNCHANGED <<limiterVars, harnessVars, runVars, verifyVars, updateVars, request>>

ToolInit == InitLimiter /\ InitHarness /\ InitNoRun /\ InitNoVerify /\ InitUpdate

ToolNext ==
    \/ \E name \in RequestNames : \E args \in ToolArguments : ReceiveCall(name, args)
    \/ \E op \in OperationOutcomes : CallTool(op)

SpecTool == ToolInit /\ [][ToolNext]_vars

\* ------------------------------------------------------------ claims
Pairs == {p \in (1..Len(history)) \X (1..Len(history)) : p[1] # p[2]}

\* C3: when a call of the rate limiter starts after another call has
\* returned, it returns at least minDelayMs after that call returned.
C3_SpacedWhenSequential ==
    \A p \in Pairs :
        history[p[2]].startEv > history[p[1]].retEv
            => history[p[2]].ret - history[p[1]].ret >= minDelayMs

C3_Witness ==
    \E p \in Pairs :
        /\ history[p[2]].startEv > history[p[1]].retEv
        /\ history[p[2]].waited
        /\ history[p[2]].ret - history[p[1]].ret = minDelayMs

Overlap(a, b) ==
    /\ a.startEv < b.startEv
    /\ b.startEv < a.retEv

\* C4: when a call starts while an earlier call is still suspended in its
\* wait, the two calls still return at least minDelayMs apart.
C4_SpacedWhenOverlapping ==
    \A p \in Pairs :
        Overlap(history[p[1]], history[p[2]])
            => \/ history[p[2]].ret - history[p[1]].ret >= minDelayMs
               \/ history[p[1]].ret - history[p[2]].ret >= minDelayMs

\* ---- updateSalesforce
UpdatePcs == {"upd_loop", "upd_throttle", "upd_await", "upd_each", "upd_each_await"}

InFlight == {k \in 1..Len(wstate) : wstate[k].st = "pending"}
Failed   == {k \in 1..Len(wstate) : wstate[k].st = "rejected"}
Settled(k) == wstate[k].st \in {"fulfilled", "rejected"}

CeilDiv(n, d) == (n + d - 1) \div d

\* number of entries of the sequence list that equal msg
Count(list, msg) == Cardinality({j \in 1..Len(list) : list[j] = msg})

\* C5: in a dry run, in either program, no Contact update is sent to the
\* CRM at any point of updateSalesforce.
C5_DryRunSendsNoUpdate == dryRun => writes = <<>> /\ InFlight = {}

C5_Witness == dryRun /\ pc = "report" /\ Len(results) >= 2

C7_ChunksSequential ==
    (mode = "quality" /\ pc \in UpdatePcs) =>
        /\ Cardinality(InFlight) <= batchSize
        /\ InFlight \subseteq Batch(bi)
        /\ \A k \in 1..Len(wstate) :
              /\ k <= bi => Settled(k)
              /\ k > bi + batchSize => wstate[k] = Unissued
        /\ Len(writes) \in {Min(bi, Len(results)), Min(bi + batchSize, Len(results))}

C7_Witness ==
    /\ mode = "quality" /\ pc = "upd_await"
    /\ bi = batchSize
    /\ InFlight # {}
    /\ \E k \in 1..batchSize : wstate[k].st = "rejected"

\* C8: the live chunked update of N results calls the rate limiter once
\* per chunk, before the chunk's writes are sent: ceil(N / batchSize) calls
\* in all, whatever writes failed.
C8_LimiterOncePerChunk ==
    (mode = "quality" /\ ~dryRun) =>
        /\ pc = "report" => requestCount = CeilDiv(Len(results), batchSize)
        /\ pc \in {"upd_loop", "upd_throttle"} =>
              /\ requestCount = CeilDiv(Min(bi, Len(results)), batchSize)
              /\ Len(writes) = Min(bi, Len(results))
        /\ pc = "upd_await" => requestCount = CeilDiv(Len(writes), batchSize)
        /\ Len(writes) <= requestCount * batchSize

C8_Witness ==
    /\ mode = "quality" /\ ~dryRun /\ pc = "report"
    /\ Len(results) > batchSize
    /\ requestCount = 2
    /\ \E k \in 1..batchSize : wstate[k].st = "rejected"

\* C9: in a live update a failing write prevents no other write: every
\* result gets exactly one write attempt, the counters always count the
\* settled writes, and at the end success count + error count is the
\* number of results and the recorded errors are exactly one message per
\* failed item, with its contact name and the CRM's error text.
C9_FailuresIsolated ==
    ~dryRun =>
        /\ successCount = Cardinality({k \in 1..Len(wstate) : wstate[k].st = "fulfilled"})
        /\ errorCount = Cardinality(Failed)
        /\ \A j \in 1..Len(writes) : writes[j].Id = results[j].id
        /\ LET recorded == IF mode = "quality" THEN errors ELSE errorLog IN
           /\ Len(recorded) = Cardinality(Failed)
           /\ \A k \in Failed :
                 Count(recorded, ErrorMsg(results[k].name, wstate[k].reason))
                   = Cardinality({f \in Failed :
                        ErrorMsg(results[f].name, wstate[f].reason)
                          = ErrorMsg(results[k].name, wstate[k].reason)})
        /\ pc = "report" =>
              /\ Len(writes) = Len(results)
              /\ successCount + errorCount = Len(results)
              /\ spinner.successCount = successCount
              /\ spinner.errorCount = errorCount

C9_Witness ==
    /\ ~dryRun /\ mode = "quality" /\ pc = "report"
    /\ Len(results) > batchSize
    /\ wstate[1].st = "rejected"
    /\ errorCount = MaxWriteFailures
    /\ successCount = Len(results) - MaxWriteFailures

LoopPcs == {"verify", "launch", "strategy", "classify", "courtesy"}
AfterLoopPcs == UpdatePcs \cup {"update", "report", "save", "complete"}

\* C1: in both programs, whatever the searches, DNS lookups and
\* verifications do, the result list holds one result per contact handled
\* so far, in the order of the contacts, and when the verification loop
\* has ended it holds exactly one result for every contact of the query.
C1_OneResultPerContact ==
    /\ Len(results) <= Len(contacts)
    /\ \A k \in 1..Len(results) : results[k].id = contacts[k].Id
    /\ pc \in LoopPcs => Len(results) = (IF pc = "courtesy" THEN ci + 1 ELSE ci)
    /\ pc \in AfterLoopPcs => Len(results) = Len(contacts)

C1_Witness ==
    /\ mode = "quality" /\ pc = "update" /\ Len(contacts) = MaxContacts
    /\ raised[1] # NoError /\ results[1].status = "ERROR"
    /\ raised[2] = NoError /\ results[2].status # "ERROR"

\* C2: in both programs, a contact whose verification raised an error
\* (a failed search included) gets a result with status ERROR whose note
\* carries the error message, and the loop goes on.
C2_FailureBecomesErrorResult ==
    \A k \in 1..Len(results) :
        raised[k] # NoError =>
            /\ results[k].status = "ERROR"
            /\ results[k].notes.message = raised[k]

\* C10: the backends are requested in the order Google, DuckDuckGo, Bing;
\* a backend that yields a candidate is the last one requested, and the
\* candidates searchLinkedIn returns are that backend's; if none yields,
\* it returns no candidate.
C10_StopsAtFirstYield ==
    /\ Len(attempts) <= Len(searchStrategies)
    /\ \A j \in 1..Len(attempts) :
          /\ attempts[j].engine = searchStrategies[j]
          /\ Len(attempts[j].found) > 0 =>
                /\ j = Len(attempts)
                /\ pc # "strategy"
                /\ searchResults = attempts[j].found
    /\ pc = "strategy" => sidx = Len(attempts) + 1
    /\ (pc = "classify" /\ \A j \in 1..Len(attempts) : Len(attempts[j].found) = 0)
          => searchResults = <<>>

C10_Witness ==
    /\ pc = "classify" /\ Len(attempts) = 2
    /\ attempts[1].threw
    /\ Len(attempts[2].found) = 2
    /\ searchResults = attempts[2].found

\* the search of the current contact has tried its backends and is over
SearchOver == pc = "classify" /\ Len(attempts) > 0

AllFailedOrEmpty == \A j \in 1..Len(attempts) : Len(attempts[j].found) = 0

\* C11: a backend that throws (navigation timeout, navigation error,
\* extraction error) only ends its own turn: the search is never over
\* after a failed backend unless that backend was the last, and when all
\* backends failed or found nothing the search hands an empty list to the
\* classification, without an error raised for the contact.
C11_BackendFailureIsLocal ==
    /\ \A j \in 1..Len(attempts) :
          (attempts[j].threw /\ j < Len(searchStrategies)) =>
              \/ Len(attempts) > j
              \/ pc = "strategy" /\ sidx = j + 1
    /\ (SearchOver /\ AllFailedOrEmpty) =>
          /\ Len(attempts) = Len(searchStrategies)
          /\ searchResults = <<>>
          /\ raised[ci + 1] = NoError

C11_Witness ==
    /\ SearchOver /\ Len(attempts) = Len(searchStrategies)
    /\ \A j \in 1..Len(attempts) : attempts[j].threw
    /\ searchResults = <<>>

\* C12: whatever the contact and the result pages are, no backend hands
\* over more than 5 candidates and searchLinkedIn returns at most 5.
C12_AtMostFiveCandidates ==
    /\ Len(searchResults) <= 5
    /\ \A j \in 1..Len(attempts) : Len(attempts[j].found) <= 5

C12_Witness ==
    /\ pc = "classify" /\ Len(searchResults) = 5
    /\ \E o \in StrategyOutcomes : ~o.threw /\ Len(o.page) > 5
                                   /\ searchResults = Evaluate(o.page)

\* a contact with a company has been classified and its result is the
\* last of the result list; searchResults is still the list it was
\* classified on
Classified ==
    /\ mode = "search" /\ Len(results) > 0
    /\ pc \notin {"launch", "strategy", "classify"}
    /\ CompanyName(contacts[Len(results)]) # S_UnknownCompany

LastContact == contacts[Len(results)]
LastResult  == results[Len(results)]

\* C13: classification on an empty candidate list yields status UNKNOWN,
\* the note that the contact could not be found, and no source URL.
C13_NoCandidatesIsUnknown ==
    (Classified /\ searchResults = <<>>) =>
        /\ LastResult.status = "UNKNOWN"
        /\ LastResult.notes = <<"Could not find contact on LinkedIn", <<>> >>
        /\ LastResult.sourceUrl = ""
        /\ LastResult.id = LastContact.Id

C13_Witness ==
    /\ Classified /\ searchResults = <<>> /\ pc = "update"
    /\ LastResult.status = "UNKNOWN" /\ LastContact.Name = S_AlLi

\* every blank-separated part of the lower-cased name occurs in the
\* lower-cased title or snippet of the candidate
NameFound(name, cand) ==
    \A part \in {Split(ToLowerCase(name), " ")[j] : j \in 1..Len(Split(name, " "))} :
        \/ Includes(ToLowerCase(cand.title), part)
        \/ Includes(ToLowerCase(cand.snippet), part)

\* the snippet contains the company name, letter case ignored
CompanyFound(company, cand) == Includes(ToLowerCase(cand.snippet), ToLowerCase(company))

HasCandidates == Classified /\ Len(searchResults) > 0

\* C14: when the first candidate matches the name and its snippet
\* contains the company name in any letter case, the result is CONFIRMED
\* with the first candidate's URL and a note citing its title; the result
\* is the one the first candidate alone would give, whatever follows it.
C14_NameAndCompanyIsConfirmed ==
    HasCandidates =>
        /\ LastResult = SearchResult(LastContact, <<searchResults[1]>>)
        /\ (/\ NameFound(LastContact.Name, searchResults[1])
            /\ CompanyFound(LastContact.Account, searchResults[1]))
           => /\ LastResult.status = "CONFIRMED"
              /\ LastResult.sourceUrl = searchResults[1].url
              /\ LastResult.notes = <<"Contact verified via LinkedIn. Found: ",
                                      searchResults[1].title>>

\* an upper-case name, a company found in another letter case, and a
\* second candidate that would not match
C14_Witness ==
    /\ HasCandidates /\ Len(searchResults) = 2
    /\ LastContact.Name = S_ALLI /\ LastContact.Account = S_Acme
    /\ searchResults[1].title = S_TitleAlLi /\ searchResults[1].snippet = S_AcmeInc
    /\ searchResults[2].title = S_TitleBo
    /\ LastResult.status = "CONFIRMED"

\* C15: when the first candidate matches the name and its snippet does
\* not contain the company name, the result is OUTDATED with the first
\* candidate's URL.
C15_NameWithoutCompanyIsOutdated ==
    (/\ HasCandidates
     /\ NameFound(LastContact.Name, searchResults[1])
     /\ ~CompanyFound(LastContact.Account, searchResults[1]))
    => /\ LastResult.status = "OUTDATED"
       /\ LastResult.sourceUrl = searchResults[1].url
       /\ LastResult.notes[2] = searchResults[1].title

C15_Witness ==
    /\ HasCandidates
    /\ LastContact.Name = S_AlLi /\ LastContact.Account = S_Acme
    /\ searchResults[1].title = S_TitleAlLi /\ searchResults[1].snippet = S_AtInitech
    /\ LastResult.status = "OUTDATED"

\* C16: when there are candidates and the first does not match the name,
\* the result is UNKNOWN without source URL, whether or not its snippet
\* contains the company name.
C16_NoNameMatchIsUnknown ==
    (HasCandidates /\ ~NameFound(LastContact.Name, searchResults[1]))
    => /\ LastResult.status = "UNKNOWN"
       /\ LastResult.sourceUrl = ""
       /\ LastResult.notes =
             <<"Found LinkedIn results but couldn't confirm match. Best result: ",
               searchResults[1].title>>

C16_Witness ==
    /\ HasCandidates
    /\ LastContact.Name = S_AlLi /\ LastContact.Account = S_Acme
    /\ searchResults[1].title = S_TitleBo
    /\ CompanyFound(S_Acme, searchResults[1])
    /\ LastResult.status = "UNKNOWN" /\ LastResult.sourceUrl = ""

Digits == {"0", "1", "2", "3", "4", "5", "6", "7", "8", "9"}
Alnum(c) == c \in Digits \/ \E j \in 1..26 : LowerLetters[j] = c

\* the maximal runs of letters and digits of the lower-cased text
RECURSIVE TokensFrom(_, _)
TokensFrom(str, run) ==
    IF str = <<>> THEN (IF run = <<>> THEN {} ELSE {run})
    ELSE IF Alnum(LowerChar(Head(str)))
    THEN TokensFrom(Tail(str), Append(run, LowerChar(Head(str))))
    ELSE (IF run = <<>> THEN {} ELSE {run}) \cup TokensFrom(Tail(str), <<>>)

Tokens(str) == TokensFrom(str, <<>>)

\* the name match as the claim words it: every token of the name longer
\* than one character is contained in, or contains, a token of the
\* candidate's title or snippet
TokenMatch(name, cand) ==
    \A t \in {u \in Tokens(name) : Len(u) > 1} :
        \E w \in Tokens(cand.title) \cup Tokens(cand.snippet) :
            Includes(w, t) \/ Includes(t, w)

\* C17: the name match of the classification (the result is CONFIRMED or
\* OUTDATED exactly when it holds) is the token match: one-letter tokens
\* and characters other than letters and digits of the name do not
\* matter, and a token may contain the candidate's token or be contained.
C17_NameMatchIsTokenMatch ==
    HasCandidates =>
        ((LastResult.status # "UNKNOWN") <=> TokenMatch(LastContact.Name, searchResults[1]))

\* the results verifyContactData returned (main's catch pushes the others)
Assessed == {k \in 1..Len(results) : mode = "quality" /\ results[k].status # "ERROR"}

\* C18: the status of an assessment is CONFIRMED without issues,
\* NEEDS_REVIEW with one or two issues and a confidence above 0.5, and
\* OUTDATED otherwise; the assessment produces no other status.
C18_StatusFromIssuesAndConfidence ==
    \A k \in Assessed :
        /\ results[k].status \in {"CONFIRMED", "NEEDS_REVIEW", "OUTDATED"}
        /\ results[k].status = "CONFIRMED" <=> Len(results[k].issues) = 0
        /\ results[k].status = "NEEDS_REVIEW" <=>
              /\ Len(results[k].issues) \in {1, 2}
              /\ FGt(results[k].confidence, D_0_5)

\* one issue and a confidence of exactly 0.5: OUTDATED
C18_Witness ==
    \E k \in Assessed :
        /\ Len(results[k].issues) = 1
        /\ results[k].confidence = D_0_5
        /\ results[k].status = "OUTDATED"

\* the double nearest to k / 10, for k in 0..8
Tenth(k) ==
    IF k = 0 THEN [neg |-> FALSE, hi |-> 0, lo |-> 0]
    ELSE IF k = 1 THEN [neg |-> FALSE, hi |-> 26843545, lo |-> 161061274]
    ELSE IF k = 2 THEN [neg |-> FALSE, hi |-> 53687091, lo |-> 53687092]
    ELSE IF k = 3 THEN [neg |-> FALSE, hi |-> 80530636, lo |-> 214748364]
    ELSE IF k = 4 THEN [neg |-> FALSE, hi |-> 107374182, lo |-> 107374184]
    ELSE IF k = 5 THEN [neg |-> FALSE, hi |-> 134217728, lo |-> 0]
    ELSE IF k = 6 THEN [neg |-> FALSE, hi |-> 161061273, lo |-> 161061272]
    ELSE IF k = 7 THEN [neg |-> FALSE, hi |-> 187904819, lo |-> 53687088]
    ELSE [neg |-> FALSE, hi |-> 214748364, lo |-> 214748368]

\* the penalty of an issue, in tenths, by the kind its text shows
PenaltyTenths(issue) ==
    IF issue.text = "Name is missing or too short" THEN 3
    ELSE IF issue.text = "No company information available" THEN 2
    ELSE IF issue.text = "Job title is missing" THEN 1
    ELSE IF issue.text = "Email issue: " THEN 2
    ELSE 1

RECURSIVE SumPenalties(_)
SumPenalties(issues) ==
    IF issues = <<>> THEN 0 ELSE PenaltyTenths(Head(issues)) + SumPenalties(Tail(issues))

ClaimedTenths(issues) ==
    IF SumPenalties(issues) >= 8 THEN 0 ELSE 8 - SumPenalties(issues)

\* C19: for every set of detected issues the confidence of the result is
\* 0.8 minus the penalties 0.3, 0.2, 0.1, 0.2, 0.1 of the issues detected,
\* clamped to [0, 1].
C19_ConfidenceIsEightTenthsMinusPenalties ==
    \A k \in Assessed : results[k].confidence = Tenth(ClaimedTenths(results[k].issues))

\* C20: every detected issue comes with a recommendation: after the
\* assessment the recommendation list holds a recommendation for each
\* issue of the issue list, so it is at least as long.
C20_RecommendationForEveryIssue ==
    \A k \in Assessed : Len(results[k].recommendations) >= Len(results[k].issues)

HasIssue(r, text) == \E j \in 1..Len(r.issues) : r.issues[j].text = text

\* the DNS lookup of the contact's email domain failed or found no MX
DnsFailedFor(r) ==
    \E j \in 1..Len(r.issues) :
        /\ r.issues[j].text = "Email issue: "
        /\ r.issues[j].detail \in {"DNS lookup failed: ENOTFOUND",
                                    "No MX records found for domain"}

\* an assessed contact without company and title whose email domain
\* failed the DNS lookup
C21_Case(k) ==
    /\ k \in Assessed
    /\ contacts[k].Account = <<>> /\ contacts[k].Title = <<>>
    /\ contacts[k].Email # <<>> /\ DnsFailedFor(results[k])

\* C21: a contact without company and title whose email domain fails the
\* DNS lookup gets the three issues, a confidence of at most 0.3 and the
\* status OUTDATED.
C21_ThreeIssuesLowConfidence ==
    \A k \in 1..Len(results) :
        C21_Case(k) =>
            /\ HasIssue(results[k], "No company information available")
            /\ HasIssue(results[k], "Job title is missing")
            /\ HasIssue(results[k], "Email issue: ")
            /\ ~FGt(results[k].confidence, D_0_3)
            /\ results[k].status = "OUTDATED"

\* C22: after a failed connection the run is at its failure exit and
\* nothing else has happened or happens: no query, no verification (so
\* no search and no DNS lookup), no rate-limited request, no update.
C22_FailedConnectionEndsRun ==
    connected = "no" =>
        /\ pc = "exit1"
        /\ contacts = <<>> /\ raised = <<>> /\ attempts = <<>> /\ results = <<>>
        /\ requestCount = 0
        /\ writes = <<>> /\ wstate = <<>>
        /\ printed = NoReport /\ saved = NoReport

C22_Witness == connected = "no" /\ pc = "exit1" /\ mode = "search"

Fields(w) == DOMAIN w

\* a result whose status was decided on a candidate the search returned
FromCandidate(r) == mode = "search" /\ r.status \in {"CONFIRMED", "OUTDATED"}

\* C24: every update sent carries the status and the notes of its result
\* and the date of the day; it carries the source URL field exactly when
\* the result is CONFIRMED or OUTDATED on a search candidate, and then
\* the field holds the address of a profile link.
C24_WriteFields ==
    \A k \in 1..Len(writes) :
        /\ writes[k].Id = results[k].id
        /\ writes[k].Verification_Status__c = results[k].status
        /\ writes[k].Verification_Notes__c = results[k].notes
        /\ writes[k].Last_Verified__c = Today
        /\ "Source_URL__c" \in Fields(writes[k]) <=> FromCandidate(results[k])
        /\ "Source_URL__c" \in Fields(writes[k]) =>
               writes[k].Source_URL__c \in {Anchor1.href, Anchor2.href, Anchor3.href}

\* a search run has sent an update with the source URL and one without
C24_Witness ==
    /\ mode = "search"
    /\ \E j, k \in 1..Len(writes) :
           /\ "Source_URL__c" \in Fields(writes[j])
           /\ "Source_URL__c" \notin Fields(writes[k])

\* the values the Verification_Status__c picklist is created with
picklistValues == {"New", "CONFIRMED", "OUTDATED", "UNKNOWN"}

\* C25: every status sent to the CRM in an update is one of the four
\* values of the Verification_Status__c picklist.
C25_StatusInPicklist ==
    \A k \in 1..Len(writes) : writes[k].Verification_Status__c \in picklistValues

\* the results that have a confidence value
RECURSIVE Present(_)
Present(rs) ==
    IF rs = <<>> THEN <<>>
    ELSE LET rest == Present(SubSeq(rs, 1, Len(rs) - 1))
         IN  IF "confidence" \in DOMAIN rs[Len(rs)] THEN Append(rest, rs[Len(rs)]) ELSE rest

\* the mean of the confidence values a list of results holds
MeanOfPresent(rs) == [total |-> TotalConfidence(Present(rs)), count |-> Len(Present(rs))]

RECURSIVE SumOf(_)
SumOf(f) ==
    IF DOMAIN f = {} THEN 0
    ELSE LET st == CHOOSE x \in DOMAIN f : TRUE
         IN  f[st] + SumOf([x \in DOMAIN f \ {st} |-> f[x]])

\* the saved report partitions the results of the run
Partitions(report) ==
    /\ SumOf(report.summary) = report.totalProcessed
    /\ report.totalProcessed = Len(report.details)
    /\ report.details = results

\* a saved report partitions the results
SavedReportPartitions == saved # NoReport => Partitions(saved)

\* C27: a run that completes has saved a report, and a saved report's
\* counts per status sum to totalProcessed, which is the length of its
\* details, which are the results of the run.
C27_PersistedReport ==
    /\ pc = "complete" => saved # NoReport
    /\ SavedReportPartitions

\* the search program is busy with contact ci + 1
Searching == mode = "search" /\ pc \in {"launch", "strategy", "classify"}

\* C28: the search program handles one contact at a time, with one
\* courtesy delay of 3000 ms between two contacts: while contact i + 1 is
\* searched and classified the results of the i contacts before it are
\* there and i delays have been slept, a delay is slept only when another
\* contact follows, and after the loop N contacts have cost N - 1 delays.
C28_OneAtATimeWithDelays ==
    mode = "search" =>
        /\ now = StartTime + courtesyDelayMs * delays
        /\ Searching => Len(results) = ci /\ delays = ci /\ Len(raised) = ci + 1
        /\ pc = "courtesy" => Len(results) = ci + 1 /\ delays = ci /\ ci + 1 < Len(contacts)
        /\ (pc \in AfterLoopPcs /\ Len(contacts) > 0) => delays = Len(contacts) - 1

\* a search run of the most contacts is through its loop
C28_Witness ==
    /\ mode = "search" /\ pc \in AfterLoopPcs
    /\ Len(contacts) = MaxContacts /\ delays = MaxContacts - 1
    /\ attempts # <<>>

\* the updates the CRM has acknowledged
Committed == {k \in 1..Len(wstate) : wstate[k] = Fulfilled}

\* C29: the step that takes the interrupt ends the process, and from the
\* interrupt on no update is sent and no acknowledged update is lost.
C29_InterruptEndsRun ==
    [][signal' # NoSignal =>
          /\ pc' \in {"exit0", "killed"}
          /\ writes' = writes
          /\ \A k \in Committed : wstate'[k] = Fulfilled]_vars

\* interrupted during the updates: one acknowledged, one not yet sent
C29_Witness ==
    /\ signal = "SIGINT"
    /\ Committed # {}
    /\ Len(writes) < Len(results)

\* the email issues of a result
EmailIssues(r) == {j \in 1..Len(r.issues) : r.issues[j].text = "Email issue: "}

\* C30: an assessment whose DNS lookup fails raises nothing and returns
\* a result that is no ERROR result and has exactly one email issue, the
\* one that reports the failed lookup.
C30_DnsFailureBecomesIssue ==
    [][\A dt \in Elapsed :
          (/\ pc = "verify" /\ mode = "quality"
           /\ LooksUpDns(contacts[ci + 1].Email)
           /\ VerifyContactData("fail", dt, NoError)) =>
              LET r == results'[Len(results')]
              IN  /\ Len(results') = Len(results) + 1
                  /\ raised'[Len(raised')] = NoError
                  /\ r.status \in {"NEEDS_REVIEW", "OUTDATED"}
                  /\ Cardinality(EmailIssues(r)) = 1
                  /\ \A j \in EmailIssues(r) :
                         r.issues[j].detail = "DNS lookup failed: ENOTFOUND"]_vars

\* an assessment has returned after a failed DNS lookup
C30_Witness ==
    /\ testEmail /\ Len(results) = 1 /\ raised = <<NoError>>
    /\ results[1].status # "ERROR"
    /\ \E j \in 1..Len(results[1].issues) :
           results[1].issues[j].detail = "DNS lookup failed: ENOTFOUND"

\* the run is at or past the report step
ReportPcs == {"report", "save", "complete"}

\* persistence has finished: a dry run has sent nothing, a live run has
\* sent one update per result and each has succeeded or failed
PersistenceFinished ==
    IF dryRun
    THEN writes = <<>>
    ELSE /\ Len(writes) = Len(results)
         /\ Len(wstate) = Len(results)
         /\ \A k \in 1..Len(wstate) : Settled(k)

\* C31: no update is sent, and updateSalesforce is not entered, before
\* every contact has its result; the report is not generated before
\* every update has been sent and has succeeded or failed.
C31_StagesOrdered ==
    /\ (writes # <<>> \/ pc \in UpdatePcs \cup ReportPcs) =>
           /\ Len(results) = Len(contacts)
           /\ \A k \in 1..Len(contacts) : results[k].id = contacts[k].Id
    /\ (pc \in ReportPcs \/ printed # NoReport \/ saved # NoReport) => PersistenceFinished

\* a live run over the most contacts has printed its report after an
\* update failed
C31_Witness ==
    /\ printed # NoReport /\ ~dryRun
    /\ Len(contacts) = MaxContacts /\ Len(writes) = MaxContacts
    /\ Failed # {}

\* C32: the percentage in the notes of an assessed result is the
\* percentage of the confidence the same result carries.
C32_NotesPercentIsConfidence ==
    \A k \in Assessed : results[k].notes.percent = ToPercent(results[k].confidence)

\* the DNS lookups a data-quality run has made: one for every contact
\* assessed whose email got as far as the lookup
DnsLookups ==
    Cardinality({k \in Assessed :
                    /\ testEmail
                    /\ contacts[k].Email # <<>>
                    /\ EmailFormatOk(contacts[k].Email)})

\* the calls of the rate limiter a data-quality run makes up to its
\* report: the query, the lookups, and one per chunk of a live update
ExpectedCalls ==
    1 + DnsLookups + (IF dryRun THEN 0 ELSE CeilDiv(Len(results), batchSize))

\* C33: the call counter never goes down and goes up by one at a time,
\* and the number of API calls in the report of a data-quality run is
\* 1 for the query, plus the DNS lookups made, plus in a live run the
\* number of chunks of ten results.
C33_ApiCallsCounted ==
    [][/\ requestCount' \in {requestCount, requestCount + 1}
       /\ (mode = "quality" /\ printed' # NoReport) => printed'.apiCalls = ExpectedCalls']_vars

\* the report of a live run that made DNS lookups
C33_Witness ==
    /\ mode = "quality" /\ ~dryRun /\ printed # NoReport
    /\ Len(contacts) = MaxContacts
    /\ DnsLookups > 0
    /\ printed.apiCalls = 2 + DnsLookups

\* the message of the Error a tool call fails with, by the request and
\* by what the operation behind the tool did
FailureOf(req, op) ==
    IF req.name \notin toolNames THEN <<"Unknown tool: ", req.name>>
    ELSE IF req.arguments = Undefined /\ req.name # "get_verification_stats"
    THEN <<"Cannot destructure property '",
           IF req.name = "get_contacts" THEN "limit" ELSE "contactId",
           "' of 'args' as it is undefined.">>
    ELSE IF op.threw THEN <<op.message>>
    ELSE <<>>

\* C34: whatever the tool name and whatever the operation does, the
\* handler raises nothing and returns one text item; when the call
\* fails the text is 'Error: ' followed by the message of the failure.
C34_HandlerNeverRaises ==
    [][\A op \in OperationOutcomes :
          (request # NoRequest /\ CallTool(op)) =>
              /\ response'.kind = "response"
              /\ Len(response'.content) = 1
              /\ response'.content[1].type = "text"
              /\ FailureOf(request, op) # <<>> =>
                    response'.content[1].text = <<"Error: ">> \o FailureOf(request, op)]_vars

\* the answer to a call of a tool the server does not have
C34_Witness ==
    /\ request # NoRequest /\ response # NoResponse
    /\ request.name = "delete_contact"
    /\ response.kind = "response"
    /\ response.content[1].text = <<"Error: ", "Unknown tool: ", "delete_contact">>

====
